---- MODULE Spec2Model ----
(***************************************************************************)
(* Array2<T>: a 2d array stored row-major behind a raw pointer             *)
(* (src/src/lib.rs).  Addresses are counted in elements of T.  The state   *)
(* holds one array, the single heap block it can own, the iterator         *)
(* borrowed from it, the last accessor result, the serialized record and   *)
(* the log of allocator / generator / finalization events of the array's   *)
(* lifetime.                                                               *)
(***************************************************************************)
EXTENDS Integers, Sequences, FiniteSets, TLC

VARIABLES zst, arr, heap, log, res, it, wire, src, dec, enc, mut, ord

vars == <<zst, arr, heap, log, res, it, wire, src, dec, enc, mut, ord>>

\* ------------------------------------------------------------------ bounds
MaxDim == 2

Dims == 0..MaxDim
Coords == 0..MaxDim
Extents == 0..(MaxDim + 1)

\* --------------------------------------------------------------- constants
NULL == 0
EMPTY == 1
HeapBase == 16
Template == 7
DefaultVal == 0
Unit == 0
OutOfBoundsMsg == "Array2 index out of bounds"

Min(a, b) == IF a < b THEN a ELSE b

\* ------------------------------------------------------------------ events
Ev(e, n) == [ev |-> e, n |-> n, x |-> -1, y |-> -1]
EvCall(n, x, y) == [ev |-> "call", n |-> n, x |-> x, y |-> y]

RECURSIVE EvRange(_, _, _)
EvRange(e, from, to) ==
    IF from >= to THEN <<>> ELSE <<Ev(e, from)>> \o EvRange(e, from + 1, to)

Events(e) == SelectSeq(log, LAMBDA r : r.ev = e)

\* ---------------------------------------------------------------- pointers
\* ptr.offset(k) for a T of non-zero size; a no-op for a zero-sized T
Offset(p, k) == IF zst THEN p ELSE p + k

\* ------------------------------------------------------------------ values
NoArr == [live |-> FALSE, ptr |-> NULL, width |-> 0, height |-> 0, origin |-> "none"]
NoHeap == [live |-> FALSE, ptr |-> NULL, cells |-> <<>>]
NoRes == [op |-> "none", x |-> 0, y |-> 0, out |-> "none", addr |-> NULL, msg |-> ""]
NoIter == [kind |-> "none", ptr |-> NULL, end |-> NULL, len |-> 0,
           array_width |-> 0, req |-> <<0, 0, 0, 0>>, out |-> <<>>, done |-> FALSE]
NoWire == [present |-> FALSE, width |-> 0, height |-> 0, data |-> <<>>]
NoSrc == [present |-> FALSE, width |-> 0, height |-> 0, slice |-> <<>>]
NoDec == [status |-> "none", err |-> 0, input |-> NoWire, round_trip |-> FALSE]
\* enc: the calls the last encode made on its serializer and what it returned
NoEnc == [status |-> "none", err |-> 0, events |-> <<>>]
\* mut: the dimensions and element count the array was built with, the
\* buffer as it was when the current exclusive borrow began, the offsets
\* written through that borrow, the number of yielded slices written, and
\* the number of borrows written through since construction
NoMut == [active |-> FALSE, born |-> <<0, 0, 0>>, pre |-> <<>>,
          writes |-> <<>>, slices |-> 0, n |-> 0]
\* ord: two arrays under comparison and the results of ==, partial_cmp, cmp
NoOrd == [a |-> NoSrc, b |-> NoSrc, ran |-> {}, eq |-> FALSE,
          partial_cmp |-> "none", cmp |-> "none"]

Born(width, height, cells) == [NoMut EXCEPT !.born = <<width, height, Len(cells)>>]
MutIdle == [NoMut EXCEPT !.born = mut.born, !.n = mut.n]
Snapshot == [MutIdle EXCEPT !.active = TRUE, !.pre = heap.cells]

\* -------------------------------------------------------------- generators
\* the caller's factory for from_fn_with_points: distinct for distinct (x, y)
UserF(x, y) == 100 + 10 * x + y

\* item number n of (0..height).flat_map(|y| iter::repeat(y).zip((0..width)))
PointsIterItem(n, width) == <<n \div width, n % width>>

\* the arguments the closure of from_fn_with_points hands to f on call n:
\* let (x, y) = iter.next().unwrap(); f(x, y)
PointsArgs(n, width) ==
    LET item == PointsIterItem(n, width)
        x == item[1]
        y == item[2]
    IN <<x, y>>

\* result of call number n (from 0) of the generator
GenCall(gen, n, width) ==
    CASE gen = "counter" -> n
      [] gen = "default" -> DefaultVal
      [] gen = "clone" -> Template
      [] gen = "points" -> UserF(PointsArgs(n, width)[1], PointsArgs(n, width)[2])

GenEvent(gen, n, width) ==
    IF gen = "points"
    THEN EvCall(n, PointsArgs(n, width)[1], PointsArgs(n, width)[2])
    ELSE EvCall(n, -1, -1)

\* for offset in 0..count { ptr::write(ptr.offset(offset), f()) }
RECURSIVE FillLoop(_, _, _, _, _)
FillLoop(st, offset, count, gen, width) ==
    IF offset >= count THEN st
    ELSE FillLoop([cells |-> Append(st.cells, GenCall(gen, offset, width)),
                   log |-> Append(st.log, GenEvent(gen, offset, width))],
                  offset + 1, count, gen, width)

allocation_required_nodims(width, height) == ~zst
allocation_required(width, height) == ~zst /\ width > 0 /\ height > 0

from_fn(width, height, gen) ==
    IF allocation_required(width, height)
    THEN LET count == width * height
             st == FillLoop([cells |-> <<>>, log |-> <<Ev("alloc", count)>>],
                            0, count, gen, width)
         IN [ptr |-> HeapBase, width |-> width, height |-> height,
             heap |-> [live |-> TRUE, ptr |-> HeapBase, cells |-> st.cells],
             log |-> st.log]
    ELSE [ptr |-> EMPTY, width |-> width, height |-> height,
          heap |-> NoHeap, log |-> <<>>]

Construct(width, height, gen, origin, tail) ==
    LET r == from_fn(width, height, gen)
    IN /\ ~arr.live
       /\ arr' = [live |-> TRUE, ptr |-> r.ptr, width |-> r.width,
                  height |-> r.height, origin |-> origin]
       /\ heap' = r.heap
       /\ log' = r.log \o tail
       /\ res' = NoRes /\ it' = NoIter /\ wire' = NoWire /\ src' = NoSrc
       /\ dec' = NoDec /\ enc' = NoEnc
       /\ mut' = Born(r.width, r.height, r.heap.cells)
       /\ UNCHANGED <<zst, ord>>

FromFn(width, height) == Construct(width, height, "counter", "from_fn", <<>>)

FromFnWithPoints(width, height) ==
    Construct(width, height, "points", "from_fn_with_points", <<>>)

FromDefault(width, height) ==
    Construct(width, height, "default", "from_default", <<>>)

\* the template is owned by from_elem and dropped when it returns
FromElem(width, height) ==
    Construct(width, height, "clone", "from_elem", <<Ev("drop_template", 0)>>)

\* --------------------------------------------------------------- accessors
get_inclusive_bound(a, x, y) ==
    IF x <= a.width /\ y <= a.height
    THEN [out |-> "Some", addr |-> Offset(a.ptr, x + y * a.width), msg |-> ""]
    ELSE [out |-> "None", addr |-> NULL, msg |-> ""]

get(a, x, y) ==
    IF x < a.width /\ y < a.height
    THEN [out |-> "Some", addr |-> Offset(a.ptr, x + y * a.width), msg |-> ""]
    ELSE [out |-> "None", addr |-> NULL, msg |-> ""]

get_mut(a, x, y) ==
    IF x < a.width /\ y < a.height
    THEN [out |-> "Some", addr |-> Offset(a.ptr, x + y * a.width), msg |-> ""]
    ELSE [out |-> "None", addr |-> NULL, msg |-> ""]

index(a, x, y) ==
    IF x < a.width /\ y < a.height
    THEN [out |-> "Ref", addr |-> Offset(a.ptr, x + y * a.width), msg |-> ""]
    ELSE [out |-> "panic", addr |-> NULL, msg |-> OutOfBoundsMsg]

index_mut(a, x, y) ==
    IF x < a.width /\ y < a.height
    THEN [out |-> "Ref", addr |-> Offset(a.ptr, x + y * a.width), msg |-> ""]
    ELSE [out |-> "panic", addr |-> NULL, msg |-> OutOfBoundsMsg]

Access(op, x, y, r) ==
    /\ arr.live /\ it.kind = "none" /\ res.op = "none"
    /\ res' = [op |-> op, x |-> x, y |-> y, out |-> r.out, addr |-> r.addr, msg |-> r.msg]
    /\ mut' = IF op \in {"get_mut", "index_mut"} THEN Snapshot ELSE MutIdle
    /\ enc' = NoEnc
    /\ UNCHANGED <<zst, arr, heap, log, it, wire, src, dec, ord>>

Get(x, y) == Access("get", x, y, get(arr, x, y))
GetMut(x, y) == Access("get_mut", x, y, get_mut(arr, x, y))
Index(x, y) == Access("index", x, y, index(arr, x, y))
IndexMut(x, y) == Access("index_mut", x, y, index_mut(arr, x, y))

\* the returned reference goes out of scope (or the panic has unwound)
Release ==
    /\ res.op # "none"
    /\ res' = NoRes
    /\ mut' = MutIdle
    /\ UNCHANGED <<zst, arr, heap, log, it, wire, src, dec, enc, ord>>

\* --------------------------------------------------------------- iterators
SizeOf == IF zst THEN 0 ELSE 1

end_width_plus_height(a) ==
    IF SizeOf > 0 THEN Offset(a.ptr, a.width + a.height)
    ELSE a.ptr + a.width + a.height

end(a) ==
    IF SizeOf > 0 THEN Offset(a.ptr, a.width * a.height)
    ELSE a.ptr + a.width * a.height

Item(addr, len) == [addr |-> addr, len |-> len]

iter(a, kind) ==
    [kind |-> kind, ptr |-> a.ptr, end |-> end(a), len |-> 1, array_width |-> 0,
     req |-> <<0, 0, 0, 0>>, out |-> <<>>, done |-> FALSE]

rows(a, kind) ==
    [kind |-> kind, ptr |-> a.ptr, end |-> end(a), len |-> a.width, array_width |-> 0,
     req |-> <<0, 0, 0, 0>>, out |-> <<>>, done |-> FALSE]

view_components_window_stride(a, x, y, width, height) ==
    LET input_is_valid == x < a.width /\ y < a.height /\ width > 0 /\ height > 0
        w == Min(width, a.width - x)
        h == Min(height, a.height - y)
    IN IF input_is_valid
       THEN IF SizeOf > 0
            THEN LET ptr == Offset(a.ptr, x + y * a.width)
                 IN <<ptr, Offset(ptr, h * w), w, a.width>>
            ELSE <<a.ptr, a.ptr + h, w, a.width>>
       ELSE <<a.ptr, a.ptr, width, a.width>>

\* (ptr, end, slice_len, array_width)
view_components(a, x, y, width, height) ==
    LET input_is_valid == x < a.width /\ y < a.height /\ width > 0 /\ height > 0
        w == Min(width, a.width - x)
        h == Min(height, a.height - y)
    IN IF input_is_valid
       THEN IF SizeOf > 0
            THEN LET ptr_offset == x + y * a.width
                     ptr == Offset(a.ptr, ptr_offset)
                     end_offset == h * a.width
                 IN <<ptr, Offset(ptr, end_offset), w, a.width>>
            ELSE <<a.ptr, a.ptr + h, w, a.width>>
       ELSE <<a.ptr, a.ptr, width, a.width>>

view(a, kind, x, y, width, height) ==
    LET c == view_components(a, x, y, width, height)
    IN [kind |-> kind, ptr |-> c[1], end |-> c[2], len |-> c[3], array_width |-> c[4],
        req |-> <<x, y, width, height>>, out |-> <<>>, done |-> FALSE]

\* Items::next and ItemsMut::next
items_next(i) ==
    IF i.ptr < i.end
    THEN [i EXCEPT !.out = Append(@, Item(i.ptr, 1)),
                   !.ptr = IF SizeOf > 0 THEN Offset(i.ptr, 1) ELSE i.ptr + 1]
    ELSE [i EXCEPT !.done = TRUE]

rows_next_one(i) ==
    IF i.ptr < i.end
    THEN [i EXCEPT !.out = Append(@, Item(i.ptr, i.len)),
                   !.ptr = IF SizeOf > 0 THEN Offset(i.ptr, 1) ELSE i.ptr + 1]
    ELSE [i EXCEPT !.done = TRUE]

\* Rows::next and RowsMut::next
rows_next(i) ==
    IF i.ptr < i.end
    THEN [i EXCEPT !.out = Append(@, Item(i.ptr, i.len)),
                   !.ptr = IF SizeOf > 0 THEN Offset(i.ptr, i.len) ELSE i.ptr + i.len]
    ELSE [i EXCEPT !.done = TRUE]

\* View::next and ViewMut::next
view_next(i) ==
    IF i.ptr < i.end
    THEN [i EXCEPT !.out = Append(@, Item(i.ptr, i.len)),
                   !.ptr = IF SizeOf > 0 THEN Offset(i.ptr, i.array_width) ELSE i.ptr + 1]
    ELSE [i EXCEPT !.done = TRUE]

Borrow(i) ==
    /\ arr.live /\ it.kind = "none" /\ res.op = "none"
    /\ it' = i
    /\ res' = NoRes
    /\ mut' = IF i.kind = "view_mut" THEN Snapshot ELSE MutIdle
    /\ enc' = NoEnc
    /\ UNCHANGED <<zst, arr, heap, log, wire, src, dec, ord>>

Iter == Borrow(iter(arr, "items"))
IterMut == Borrow(iter(arr, "items_mut"))
Rows == Borrow(rows(arr, "rows"))
RowsMut == Borrow(rows(arr, "rows_mut"))
View(x, y, w, h) == Borrow(view(arr, "view", x, y, w, h))
ViewMut(x, y, w, h) == Borrow(view(arr, "view_mut", x, y, w, h))

Advance(kinds, i) ==
    /\ it.kind \in kinds
    /\ it' = i
    /\ UNCHANGED <<zst, arr, heap, log, res, wire, src, dec, enc, mut, ord>>

ItemsNext == Advance({"items", "items_mut"}, items_next(it))
RowsNext == Advance({"rows", "rows_mut"}, rows_next(it))
ViewNext == Advance({"view", "view_mut"}, view_next(it))

\* the iterator goes out of scope and the borrow ends
IterEnd ==
    /\ it.kind # "none"
    /\ it' = NoIter
    /\ mut' = MutIdle
    /\ UNCHANGED <<zst, arr, heap, log, res, wire, src, dec, enc, ord>>

\* ------------------------------------------------------------------ writes
\* the value test::get_mut stores through the reference
Written == 10

\* a store that lands one element further than addr
Store_next_element(cells, addr, v) ==
    IF zst THEN cells
    ELSE LET k == addr - heap.ptr + 2
         IN IF heap.live /\ k \in 1..Len(cells) THEN [cells EXCEPT ![k] = v] ELSE cells

\* *r = v through a reference to addr: nothing is stored for a zero-sized
\* type, and a store outside the block the array owns leaves the block as
\* it is
Store(cells, addr, v) ==
    IF zst THEN cells
    ELSE LET k == addr - heap.ptr + 1
         IN IF heap.live /\ k \in 1..Len(cells) THEN [cells EXCEPT ![k] = v] ELSE cells

\* for element in row.iter_mut() { *element += 1 }
RECURSIVE IncrementRow(_, _, _)
IncrementRow(cells, row, j) ==
    IF j >= row.len THEN cells
    ELSE LET addr == Offset(row.addr, j)
             k == addr - heap.ptr + 1
             element == IF ~zst /\ heap.live /\ k \in 1..Len(cells) THEN cells[k] ELSE Unit
         IN IncrementRow(Store(cells, addr, element + 1), row, j + 1)

\* exclusive borrows are taken from an array until this many of them have
\* been written through
MaxWriteBorrows == 1

\* *array.get_mut(x, y).unwrap() = v  and  array[(x, y)] = v
StoreRef ==
    /\ res.op \in {"get_mut", "index_mut"} /\ res.out \in {"Some", "Ref"}
    /\ mut.active /\ mut.writes = <<>>
    /\ heap' = [heap EXCEPT !.cells = Store(@, res.addr, Written)]
    /\ mut' = [mut EXCEPT !.writes = <<res.addr - arr.ptr>>, !.n = @ + 1]
    /\ UNCHANGED <<zst, arr, log, res, it, wire, src, dec, enc, ord>>

\* the body of  for row in array.view_mut(..)  applied to the next slice
\* the iterator has yielded
WriteSlice ==
    /\ it.kind = "view_mut" /\ mut.active /\ mut.slices < Len(it.out)
    /\ LET row == it.out[mut.slices + 1]
       IN /\ heap' = [heap EXCEPT !.cells = IncrementRow(@, row, 0)]
          /\ mut' = [mut EXCEPT
                      !.writes = @ \o [j \in 1..row.len |-> Offset(row.addr, j - 1) - arr.ptr],
                      !.slices = @ + 1,
                      !.n = IF mut.slices = 0 THEN @ + 1 ELSE @]
    /\ UNCHANGED <<zst, arr, log, res, it, wire, src, dec, enc, ord>>

\* ------------------------------------------------------------- destruction
\* for e in self.iter() { ptr::read(e) }
RECURSIVE DropLoop(_, _, _)
DropLoop(a, i, acc) ==
    IF i.ptr < i.end
    THEN DropLoop(a, items_next(i), Append(acc, Ev("drop", i.ptr - a.ptr)))
    ELSE acc

drop(a) ==
    LET deallocation_required == a.ptr # EMPTY
    IN IF deallocation_required
       THEN DropLoop(a, iter(a, "items"), <<>>)
            \o <<Ev("dealloc", a.width * a.height * SizeOf)>>
       ELSE <<>>

Drop ==
    /\ arr.live /\ it.kind = "none" /\ res.op = "none"
    /\ log' = log \o drop(arr)
    /\ arr' = [arr EXCEPT !.live = FALSE]
    /\ heap' = IF arr.ptr # EMPTY THEN NoHeap ELSE heap
    /\ res' = NoRes /\ dec' = NoDec /\ enc' = NoEnc /\ mut' = NoMut
    /\ UNCHANGED <<zst, it, wire, src, ord>>

\* ------------------------------------------------------------------- codec
\* the element type's own codec: the wire form differs from the value
EncElem(v) == 2 * v + 1
ValidElem(w) == w % 2 = 1
DecElem(w) == (w - 1) \div 2
Corrupt == 0
\* the error the deserializer reports when element i cannot be read
DecoderError(i) == 500 + i

\* what a read through addr yields; g stands for the content of memory the
\* array does not own
Load(addr, g) ==
    IF zst THEN Unit
    ELSE LET k == addr - heap.ptr + 1
         IN IF heap.live /\ k \in 1..Len(heap.cells) THEN heap.cells[k] ELSE g

as_slice(a) == Item(a.ptr, a.width * a.height)

SliceVals(s, g) == [k \in 1..s.len |-> Load(Offset(s.addr, k - 1), g)]

\* for (i, element) in self.iter().enumerate() { emit_seq_elt(i, element.encode) }
RECURSIVE EncodeLoop(_, _, _)
EncodeLoop(i, g, acc) ==
    IF i.ptr < i.end
    THEN EncodeLoop(items_next(i), g, Append(acc, EncElem(Load(i.ptr, g))))
    ELSE acc

encode(a, g) ==
    [present |-> TRUE, width |-> a.width, height |-> a.height,
     data |-> EncodeLoop(iter(a, "items"), g, <<>>)]

Garbage == {DefaultVal, Template}

\* the error the serializer reports when it rejects its k-th call
SerializerError(k) == 700 + k
SEv(ev, n, v) == [ev |-> ev, n |-> n, v |-> v]

\* one call on the serializer under try!: the serializer rejects its fail-th
\* call (fail = 0: none); after an Err nothing more is called
Emit(st, e, fail) ==
    IF st.status = "Err" THEN st
    ELSE IF Len(st.events) + 1 = fail
         THEN [status |-> "Err", err |-> SerializerError(fail), events |-> Append(st.events, e)]
         ELSE [st EXCEPT !.events = Append(st.events, e)]

\* for (i, element) in self.iter().enumerate() { try!(emit_seq_elt(i, ..)) }
RECURSIVE EmitLoop(_, _, _, _, _)
EmitLoop(st, i, n, g, fail) ==
    IF st.status = "Ok" /\ i.ptr < i.end
    THEN EmitLoop(Emit(st, SEv("elt", n, EncElem(Load(i.ptr, g))), fail),
                  items_next(i), n + 1, g, fail)
    ELSE st

\* an encode that emits the two dimension fields height first
encode_calls_height_first(a, g, fail) ==
    LET s0 == [status |-> "Ok", err |-> 0, events |-> <<>>]
        s1 == Emit(s0, SEv("height", 1, a.height), fail)
        s2 == Emit(s1, SEv("width", 0, a.width), fail)
        s3 == Emit(s2, SEv("data", 2, a.width * a.height), fail)
    IN EmitLoop(s3, iter(a, "items"), 0, g, fail)

\* Encodable::encode as the calls it makes on the serializer
encode_calls(a, g, fail) ==
    LET s0 == [status |-> "Ok", err |-> 0, events |-> <<>>]
        s1 == Emit(s0, SEv("width", 0, a.width), fail)
        s2 == Emit(s1, SEv("height", 1, a.height), fail)
        s3 == Emit(s2, SEv("data", 2, a.width * a.height), fail)
    IN EmitLoop(s3, iter(a, "items"), 0, g, fail)

\* the calls a serializer can reject: 3 fields and one per element
FailSteps(a) == 0..(3 + a.width * a.height)

Encode ==
    /\ arr.live /\ it.kind = "none" /\ res.op = "none"
    /\ \E g \in Garbage, fail \in FailSteps(arr) :
          LET e == encode_calls(arr, g, fail)
          IN /\ enc' = e
             /\ wire' = IF e.status = "Ok" THEN encode(arr, g) ELSE wire
             /\ src' = IF e.status = "Ok"
                       THEN [present |-> TRUE, width |-> arr.width, height |-> arr.height,
                             slice |-> SliceVals(as_slice(arr), g)]
                       ELSE src
    /\ res' = NoRes
    /\ UNCHANGED <<zst, arr, heap, log, it, dec, mut, ord>>

read_seq_elt(rec, i) ==
    IF ValidElem(rec.data[i + 1])
    THEN [ok |-> TRUE, val |-> DecElem(rec.data[i + 1]), err |-> 0]
    ELSE [ok |-> FALSE, val |-> 0, err |-> DecoderError(i)]

decode_cleanup_skip_last(i, len) ==
    EvRange("drop", 0, i - 1) \o <<Ev("dealloc", len * SizeOf)>>

\* for j in 0..i { ptr::read(ptr.offset(j)) }; heap::deallocate(ptr, bytes, align)
decode_cleanup(i, len) ==
    EvRange("drop", 0, i) \o <<Ev("dealloc", len * SizeOf)>>

\* for i in 0..len { match d.read_seq_elt(i, ..) { Ok(e) => write, Err(e) => .. } }
RECURSIVE DecodeLoop(_, _, _)
DecodeLoop(st, i, rec) ==
    IF i >= Len(rec.data) THEN st
    ELSE LET r == read_seq_elt(rec, i)
         IN IF r.ok
            THEN DecodeLoop([st EXCEPT !.cells = IF zst THEN @ ELSE Append(@, r.val),
                                       !.log = Append(@, Ev("write", i))],
                            i + 1, rec)
            ELSE [st EXCEPT !.status = "Err", !.err = r.err,
                            !.log = @ \o decode_cleanup(i, Len(rec.data))]

decode_swapped_dims(rec, ptr) ==
    LET st == DecodeLoop([cells |-> <<>>, log |-> <<Ev("alloc", Len(rec.data) * SizeOf)>>,
                          status |-> "Ok", err |-> 0], 0, rec)
    IN [status |-> st.status, err |-> st.err, cells |-> st.cells, log |-> st.log,
        width |-> rec.height, height |-> rec.width, ptr |-> ptr]

decode(rec, ptr) ==
    LET st == DecodeLoop([cells |-> <<>>, log |-> <<Ev("alloc", Len(rec.data) * SizeOf)>>,
                          status |-> "Ok", err |-> 0], 0, rec)
    IN [status |-> st.status, err |-> st.err, cells |-> st.cells, log |-> st.log,
        width |-> rec.width, height |-> rec.height, ptr |-> ptr]

\* heap::allocate: a request of zero bytes is outside the allocator's contract
Allocate(bytes) == IF bytes > 0 THEN {HeapBase} ELSE {NULL, HeapBase}

Decode(rec, round_trip) ==
    /\ ~arr.live /\ ~heap.live
    /\ \E ptr \in Allocate(Len(rec.data) * SizeOf) :
          LET r == decode(rec, ptr)
          IN /\ arr' = IF r.status = "Ok"
                       THEN [live |-> TRUE, ptr |-> r.ptr, width |-> r.width,
                             height |-> r.height, origin |-> "decode"]
                       ELSE NoArr
             /\ heap' = IF r.status = "Ok" /\ r.ptr # NULL
                        THEN [live |-> TRUE, ptr |-> r.ptr, cells |-> r.cells]
                        ELSE NoHeap
             /\ log' = r.log
             /\ dec' = [status |-> r.status, err |-> r.err, input |-> rec,
                        round_trip |-> round_trip]
             /\ mut' = IF r.status = "Ok"
                       THEN Born(r.width, r.height, IF r.ptr # NULL THEN r.cells ELSE <<>>)
                       ELSE NoMut
    /\ res' = NoRes /\ it' = NoIter /\ enc' = NoEnc
    /\ UNCHANGED <<zst, wire, src, ord>>

\* decode the record that encode emitted
DecodeWire == wire.present /\ Decode(wire, TRUE)

WireElem(i) == EncElem(IF zst THEN Unit ELSE i - 1)

DataSeqs(n) ==
    { [i \in 1..len |-> IF i = bad THEN Corrupt ELSE WireElem(i)] :
        len \in {m \in {n - 1, n, n + 1} : m >= 0}, bad \in 0..(n + 1) }

DecodeInputs ==
    { [present |-> TRUE, width |-> w, height |-> h, data |-> d] :
        w \in Dims, h \in Dims, d \in UNION {DataSeqs(n) : n \in 0..(MaxDim * MaxDim)} }

\* decode a record received from outside
DecodeInput(rec) ==
    /\ ~arr.live
    /\ rec.data \in DataSeqs(rec.width * rec.height)
    /\ wire' = NoWire /\ src' = NoSrc
    /\ Decode(rec, FALSE)

\* -------------------------------------------------------------------- spec
Init ==
    /\ zst \in BOOLEAN
    /\ arr = NoArr /\ heap = NoHeap /\ log = <<>> /\ res = NoRes /\ it = NoIter
    /\ wire = NoWire /\ src = NoSrc /\ dec = NoDec
    /\ enc = NoEnc /\ mut = NoMut /\ ord = NoOrd

Constructors ==
    \/ \E w \in Dims, h \in Dims : FromFn(w, h)
    \/ \E w \in Dims, h \in Dims : FromFnWithPoints(w, h)
    \/ \E w \in Dims, h \in Dims : FromDefault(w, h)
    \/ \E w \in Dims, h \in Dims : FromElem(w, h)
    \/ ~arr.live /\ \E rec \in DecodeInputs : DecodeInput(rec)

\* construction, element access, the codec and destruction
Next ==
    \/ Constructors
    \/ \E x \in Coords, y \in Coords : Get(x, y)
    \/ \E x \in Coords, y \in Coords : GetMut(x, y)
    \/ \E x \in Coords, y \in Coords : Index(x, y)
    \/ \E x \in Coords, y \in Coords : IndexMut(x, y)
    \/ Release
    \/ Encode
    \/ Drop
    \/ DecodeWire

Spec == Init /\ [][Next]_vars

\* construction, the three iteration protocols and destruction
NextIter ==
    \/ Constructors
    \/ Iter
    \/ IterMut
    \/ Rows
    \/ RowsMut
    \/ \E x \in Coords, y \in Coords, w \in Extents, h \in Extents : View(x, y, w, h)
    \/ \E x \in Coords, y \in Coords, w \in Extents, h \in Extents : ViewMut(x, y, w, h)
    \/ ItemsNext
    \/ RowsNext
    \/ ViewNext
    \/ IterEnd
    \/ Drop

SpecIter == Init /\ [][NextIter]_vars

\* construction, writes through get_mut / index_mut / view_mut, destruction
NextMut ==
    \/ \E w \in Dims, h \in Dims : FromFn(w, h)
    \/ ~arr.live /\ \E rec \in DecodeInputs : DecodeInput(rec)
    \/ mut.n < MaxWriteBorrows /\ \E x \in Coords, y \in Coords : GetMut(x, y)
    \/ mut.n < MaxWriteBorrows /\ \E x \in Coords, y \in Coords : IndexMut(x, y)
    \/ StoreRef
    \/ Release
    \/ /\ mut.n < MaxWriteBorrows
       /\ \E x \in Coords, y \in Coords, w \in Extents, h \in Extents : ViewMut(x, y, w, h)
    \/ ViewNext
    \/ WriteSlice
    \/ IterEnd
    \/ Drop

SpecMut == Init /\ [][NextMut]_vars

\* ---------------------------------------------------------------- equality
\* PartialEq::eq over (width, height, as_slice())
eq(a, b) == a.width = b.width /\ a.height = b.height /\ a.slice = b.slice

\* ---------------------------------------------------------------- ordering
\* u32::cmp and T::cmp
IntCmp(m, n) == IF m < n THEN "Less" ELSE IF m = n THEN "Equal" ELSE "Greater"

\* <[T] as Ord>::cmp: the first unequal pair of the common prefix decides,
\* then the lengths
RECURSIVE SliceCmp(_, _, _)
SliceCmp(s, t, k) ==
    IF k > Min(Len(s), Len(t)) THEN IntCmp(Len(s), Len(t))
    ELSE LET c == IntCmp(s[k], t[k])
         IN IF c = "Equal" THEN SliceCmp(s, t, k + 1) ELSE c

\* a comparison that looks at height before width
cmp_height_first(a, b) ==
    LET h == IntCmp(a.height, b.height)
    IN IF h = "Equal"
       THEN LET w == IntCmp(a.width, b.width)
            IN IF w = "Equal" THEN SliceCmp(a.slice, b.slice, 1) ELSE w
       ELSE h

\* Ord::cmp
cmp(a, b) ==
    LET w == IntCmp(a.width, b.width)
    IN IF w = "Equal"
       THEN LET h == IntCmp(a.height, b.height)
            IN IF h = "Equal" THEN SliceCmp(a.slice, b.slice, 1) ELSE h
       ELSE w

\* PartialOrd::partial_cmp; the result stands for Some(result)
partial_cmp(a, b) ==
    LET w == IntCmp(a.width, b.width)
    IN IF w = "Equal"
       THEN LET h == IntCmp(a.height, b.height)
            IN IF h = "Equal" THEN SliceCmp(a.slice, b.slice, 1) ELSE h
       ELSE w

\* the arrays compared: every shape of at most MaxOrdCells elements, as
\* (width, height, as_slice())
MaxOrdCells == 3
ElemVals == IF zst THEN {Unit} ELSE {DefaultVal, Template}
OrdArrays ==
    { [present |-> TRUE, width |-> w, height |-> h, slice |-> s] :
        w \in 0..MaxOrdCells, h \in 0..MaxOrdCells,
        s \in UNION { [1..n -> ElemVals] : n \in 0..MaxOrdCells } }

InitOrd ==
    /\ zst \in BOOLEAN
    /\ arr = NoArr /\ heap = NoHeap /\ log = <<>> /\ res = NoRes /\ it = NoIter
    /\ wire = NoWire /\ src = NoSrc /\ dec = NoDec
    /\ enc = NoEnc /\ mut = NoMut
    /\ \E a \in OrdArrays, b \in OrdArrays :
          /\ Len(a.slice) = a.width * a.height
          /\ Len(b.slice) = b.width * b.height
          /\ ord = [NoOrd EXCEPT !.a = a, !.b = b]

Compare(op, r) ==
    /\ ord.a.present /\ op \notin ord.ran
    /\ ord' = [r EXCEPT !.ran = ord.ran \cup {op}]
    /\ UNCHANGED <<zst, arr, heap, log, res, it, wire, src, dec, enc, mut>>

OrdEq == Compare("eq", [ord EXCEPT !.eq = eq(ord.a, ord.b)])
OrdPartialCmp == Compare("partial_cmp", [ord EXCEPT !.partial_cmp = partial_cmp(ord.a, ord.b)])
OrdCmp == Compare("cmp", [ord EXCEPT !.cmp = cmp(ord.a, ord.b)])

\* the comparisons of two arrays, in any order
NextOrd ==
    \/ OrdEq
    \/ OrdPartialCmp
    \/ OrdCmp

SpecOrd == InitOrd /\ [][NextOrd]_vars

\* ------------------------------------------------------------------ claims
IsView == it.kind \in {"view", "view_mut"}
IsRows == it.kind \in {"rows", "rows_mut"}
IsItems == it.kind \in {"items", "items_mut"}
ReqValid == it.req[1] < arr.width /\ it.req[2] < arr.height /\ it.req[3] > 0 /\ it.req[4] > 0
EffW == Min(it.req[3], arr.width - it.req[1])
EffH == Min(it.req[4], arr.height - it.req[2])
\* offset of the element a reference denotes; zero-sized elements have none
OffsetOf(addr) == IF zst THEN 0 ELSE addr - arr.ptr
At(k) == IF zst THEN 0 ELSE k
ExactlyThenNone(n) == Len(it.out) <= n /\ (it.done => Len(it.out) = n)
FromConstructor == arr.origin \in {"from_fn", "from_fn_with_points", "from_default", "from_elem"}

\* C1: view / view_mut yield nothing for a request outside the array or of
\* zero extent; otherwise exactly eh = min(h, H - y) slices and then None, each
\* of length ew = min(w, W - x), slice i holding the elements at offsets
\* x + (y+i)*W .. x + (y+i)*W + ew - 1.
C1_ViewClipped ==
    IsView =>
        IF ReqValid
        THEN /\ ExactlyThenNone(EffH)
             /\ \A i \in 1..Len(it.out) :
                   /\ it.out[i].len = EffW
                   /\ \A j \in 0..(EffW - 1) :
                         OffsetOf(Offset(it.out[i].addr, j))
                            = At(it.req[1] + (it.req[2] + i - 1) * arr.width + j)
        ELSE ExactlyThenNone(0)

C1_Witness ==
    /\ IsView /\ ~zst /\ it.done
    /\ arr.width = 2 /\ arr.height = 2 /\ it.req = <<1, 0, 2, 3>>
    /\ Len(it.out) = 2 /\ it.out[2].len = 1 /\ it.out[2].addr - arr.ptr = 3

\* C3: in bounds, get, get_mut and indexing all refer to the element at offset
\* x + y*width; out of bounds, get and get_mut return None and never stop the
\* program, Index and IndexMut stop with "Array2 index out of bounds" and
\* never return a reference.
C3_AccessFamilies ==
    res.op # "none" =>
        IF res.x < arr.width /\ res.y < arr.height
        THEN /\ res.out = (IF res.op \in {"get", "get_mut"} THEN "Some" ELSE "Ref")
             /\ OffsetOf(res.addr) = At(res.x + res.y * arr.width)
        ELSE IF res.op \in {"get", "get_mut"}
             THEN res.out = "None"
             ELSE res.out = "panic" /\ res.msg = "Array2 index out of bounds"

C3_Witness ==
    /\ res.op = "index_mut" /\ res.out = "panic"
    /\ arr.width = 2 /\ arr.height = 1 /\ res.x = 1 /\ res.y = 1

\* C4: decoding the record encode emitted succeeds and yields an array equal
\* to the encoded one: same width, same height, same row-major elements.
C4_RoundTrip ==
    dec.round_trip =>
        /\ dec.status = "Ok" /\ arr.live /\ src.present
        /\ \A g \in Garbage :
              eq([width |-> arr.width, height |-> arr.height,
                  slice |-> SliceVals(as_slice(arr), g)], src)

C4_Witness ==
    /\ dec.round_trip /\ dec.status = "Ok" /\ ~zst
    /\ arr.width = 2 /\ arr.height = 1 /\ src.slice = <<0, 1>>

FirstBad(data) == CHOOSE i \in 0..(Len(data) - 1) :
                     /\ ~ValidElem(data[i + 1])
                     /\ \A j \in 0..(i - 1) : ValidElem(data[j + 1])

\* C5: when element i fails to decode, the elements 0..i-1 already written
\* are each finalized once, none at index >= i is, the allocation is released
\* once and after them, no array is produced, and the error returned is the
\* one the deserializer reported for element i.
C5_DecodeRollback ==
    dec.status = "Err" =>
        LET i == FirstBad(dec.input.data)
        IN /\ Events("drop") = EvRange("drop", 0, i)
           /\ Len(Events("dealloc")) = 1
           /\ log[Len(log)].ev = "dealloc"
           /\ Len(Events("write")) = i
           /\ ~arr.live /\ ~heap.live
           /\ dec.err = read_seq_elt(dec.input, i).err

C5_Witness ==
    /\ dec.status = "Err" /\ FirstBad(dec.input.data) = 2
    /\ Len(Events("drop")) = 2 /\ ~arr.live

\* C6: every array a constructor or a successful decode produces owns a
\* buffer of exactly width*height initialized elements.
C6_BufferIsWidthTimesHeight ==
    (arr.live /\ ~zst) =>
        /\ Len(heap.cells) = arr.width * arr.height
        /\ arr.width * arr.height > 0 => (heap.live /\ heap.ptr = arr.ptr)

\* C2: for width > 0 and height > 0 the array from from_fn reports these
\* dimensions, the generator is invoked exactly width*height times and
\* get(x, y) is the result of call number x + y*width; from_default and
\* from_elem give the default / a clone of the template everywhere.
C2_FromFnRowMajor ==
    (arr.live /\ arr.origin \in {"from_fn", "from_default", "from_elem"}
       /\ arr.width > 0 /\ arr.height > 0) =>
        /\ Len(Events("call")) = arr.width * arr.height
        /\ \A x \in 0..(arr.width - 1), y \in 0..(arr.height - 1) :
              /\ get(arr, x, y).out = "Some"
              /\ Load(get(arr, x, y).addr, DefaultVal)
                   = IF zst THEN Unit
                     ELSE CASE arr.origin = "from_fn" -> x + y * arr.width
                            [] arr.origin = "from_default" -> DefaultVal
                            [] arr.origin = "from_elem" -> Template

\* C7: from_fn_with_points fills the slot at offset x + y*width with f(x, y),
\* so get(x, y) equals f(x, y), also when width # height.
C7_PointsGetCoordinates ==
    (arr.live /\ arr.origin = "from_fn_with_points" /\ ~zst) =>
        \A x \in 0..(arr.width - 1), y \in 0..(arr.height - 1) :
            Load(get(arr, x, y).addr, DefaultVal) = UserF(x, y)

\* C8 as stated: every live array has width > 0 and height > 0, construction
\* with a zero dimension being rejected.
C8_DimensionsPositive ==
    arr.live => (arr.width > 0 /\ arr.height > 0)

\* C8 amended: construction with width = 0 or height = 0 is accepted; it
\* touches neither the allocator nor the generator and yields an empty array
\* with these dimensions.
C8_ZeroDimensionIsEmpty ==
    (arr.live /\ FromConstructor /\ (arr.width = 0 \/ arr.height = 0)) =>
        /\ Events("alloc") = <<>> /\ Events("call") = <<>>
        /\ arr.ptr = EMPTY /\ ~heap.live
        /\ \A x \in Coords, y \in Coords : get(arr, x, y).out = "None"

C8_Witness ==
    arr.live /\ arr.origin = "from_elem" /\ arr.width = 0 /\ arr.height = 2 /\ ~zst

\* C9: destroying a constructed array of N = width*height elements finalizes
\* each element exactly once, in row-major order, all before the buffer is
\* released exactly once; from_elem finalizes its template once in addition.
C9_DropFinalizesAll ==
    (~arr.live /\ FromConstructor /\ arr.width > 0 /\ arr.height > 0) =>
        /\ Events("drop") = EvRange("drop", 0, arr.width * arr.height)
        /\ Len(Events("dealloc")) = 1
        /\ log[Len(log)].ev = "dealloc"
        /\ Len(Events("drop_template")) = (IF arr.origin = "from_elem" THEN 1 ELSE 0)

RowsAgreeWithGet ==
    \A i \in 1..Len(it.out) :
        /\ it.out[i].len = arr.width
        /\ \A x \in 0..(arr.width - 1) :
              OffsetOf(Offset(it.out[i].addr, x)) = OffsetOf(get(arr, x, i - 1).addr)

ItemsAgreeWithGet ==
    /\ ExactlyThenNone(arr.width * arr.height)
    /\ \A k \in 1..Len(it.out) :
          /\ get(arr, (k - 1) % arr.width, (k - 1) \div arr.width).out = "Some"
          /\ OffsetOf(it.out[k].addr)
               = OffsetOf(get(arr, (k - 1) % arr.width, (k - 1) \div arr.width).addr)

\* C10 as stated: rows / rows_mut yield exactly height slices of length width
\* and then None, row i being [get(0,i), ..., get(width-1,i)]; iter / iter_mut
\* yield exactly width*height elements, the k-th being get(k mod width, k div width).
C10_RowsYieldHeight ==
    /\ IsRows => (ExactlyThenNone(arr.height) /\ RowsAgreeWithGet)
    /\ IsItems => ItemsAgreeWithGet

\* C10 amended: rows / rows_mut yield exactly height slices when width > 0 and
\* none when width = 0; the rest as stated.
C10_RowsYieldHeightUnlessEmpty ==
    /\ IsRows => /\ ExactlyThenNone(IF arr.width > 0 THEN arr.height ELSE 0)
                 /\ RowsAgreeWithGet
    /\ IsItems => ItemsAgreeWithGet

C10_Witness ==
    /\ it.kind = "rows" /\ it.done /\ ~zst
    /\ arr.width = 2 /\ arr.height = 2 /\ Len(it.out) = 2
    /\ it.out[2].addr - arr.ptr = 2

\* C11: for a zero-sized element type from_fn allocates nothing and still
\* invokes the generator exactly width*height times, in row-major order.
C11_ZstGeneratorCalled ==
    (arr.live /\ zst /\ arr.origin = "from_fn") =>
        /\ Events("alloc") = <<>>
        /\ Events("call") = [k \in 1..(arr.width * arr.height) |-> EvCall(k - 1, -1, -1)]

\* C12: an array of a zero-sized element type with dimensions W x H answers
\* get(x, y) with Some exactly when x < W and y < H, iter yields W*H elements,
\* rows yields H slices of length W, view yields min(h, H - y) slices of length
\* min(w, W - x) for a valid request and none otherwise, and neither its
\* construction nor its destruction calls the allocator.
C12_ZstArray ==
    (zst /\ arr.origin # "none" /\ arr.width > 0 /\ arr.height > 0) =>
        /\ \A x \in Coords, y \in Coords :
              (get(arr, x, y).out = "Some") <=> (x < arr.width /\ y < arr.height)
        /\ IsItems => ExactlyThenNone(arr.width * arr.height)
        /\ IsRows => /\ ExactlyThenNone(arr.height)
                     /\ \A i \in 1..Len(it.out) : it.out[i].len = arr.width
        /\ IsView => /\ ExactlyThenNone(IF ReqValid THEN EffH ELSE 0)
                     /\ \A i \in 1..Len(it.out) : it.out[i].len = EffW
        /\ Events("alloc") = <<>> /\ Events("dealloc") = <<>>

\* C15: an array with width 0 or height 0 is a usable empty array: get and
\* get_mut return None everywhere, as_slice is empty, and iter, iter_mut, rows,
\* rows_mut, view and view_mut return None on the first call to next.
C15_EmptyArray ==
    (arr.live /\ (arr.width = 0 \/ arr.height = 0)) =>
        /\ \A x \in Coords, y \in Coords :
              get(arr, x, y).out = "None" /\ get_mut(arr, x, y).out = "None"
        /\ as_slice(arr).len = 0
        /\ it.kind # "none" => it.out = <<>>

C15_Witness ==
    /\ arr.live /\ arr.origin = "from_elem" /\ ~zst
    /\ arr.width = 0 /\ arr.height = 2
    /\ it.kind = "view_mut" /\ it.req = <<0, 0, 1, 1>> /\ it.done /\ it.out = <<>>

\* the calls encode is to make for the live array: the three fields in
\* order, then element get(i mod width, i div width) at index i
ExpectedCalls(g) ==
    LET n == arr.width * arr.height
    IN <<SEv("width", 0, arr.width), SEv("height", 1, arr.height), SEv("data", 2, n)>>
       \o [k \in 1..n |->
             SEv("elt", k - 1,
                 EncElem(Load(get(arr, (k - 1) % arr.width, (k - 1) \div arr.width).addr, g)))]

\* C14: encode calls the serializer with width, height, data (a sequence of
\* declared length width*height) and then the width*height elements at
\* indices 0, 1, ... in row-major order; it stops at the first call the
\* serializer rejects and returns that error, and never fails otherwise.
C14_EncodeOrder ==
    enc.status # "none" =>
        \E g \in Garbage :
            LET exp == ExpectedCalls(g)
            IN \/ enc.status = "Ok" /\ enc.events = exp /\ enc.err = 0
               \/ /\ enc.status = "Err"
                  /\ Len(enc.events) \in 1..Len(exp)
                  /\ enc.events = SubSeq(exp, 1, Len(enc.events))
                  /\ enc.err = SerializerError(Len(enc.events))

C14_Witness ==
    /\ arr.live /\ ~zst /\ arr.width = 2 /\ arr.height = 2 /\ arr.origin = "from_fn"
    /\ enc.status = "Err" /\ Len(enc.events) = 5 /\ enc.events[5].n = 1

\* lexicographic order of two tuples, stated by the first differing position
Lex(s, t) ==
    LET Common == 1..Min(Len(s), Len(t))
        FirstDiff(k) == s[k] # t[k] /\ \A j \in 1..(k - 1) : s[j] = t[j]
    IN IF \E k \in Common : FirstDiff(k) /\ s[k] < t[k] THEN "Less"
       ELSE IF \E k \in Common : FirstDiff(k) /\ s[k] > t[k] THEN "Greater"
       ELSE IF Len(s) < Len(t) THEN "Less"
       ELSE IF Len(s) > Len(t) THEN "Greater"
       ELSE "Equal"

Key(a) == <<a.width, a.height>> \o a.slice

\* C13: a == b exactly when widths, heights and the flattened sequences
\* agree element by element; cmp is the lexicographic comparison of (width,
\* height, flattened sequence), decided by width alone when widths differ
\* and by height alone when only heights differ; arrays of differing width
\* are never equal; a == b exactly when cmp(a, b) is Equal.
C13_EqAndCmp ==
    LET a == ord.a
        b == ord.b
    IN /\ "eq" \in ord.ran =>
             /\ ord.eq <=> /\ a.width = b.width /\ a.height = b.height
                           /\ Len(a.slice) = Len(b.slice)
                           /\ \A k \in 1..Len(a.slice) : a.slice[k] = b.slice[k]
             /\ a.width # b.width => ~ord.eq
       /\ "cmp" \in ord.ran =>
             /\ ord.cmp = Lex(Key(a), Key(b))
             /\ a.width # b.width =>
                   ord.cmp = IF a.width < b.width THEN "Less" ELSE "Greater"
             /\ (a.width = b.width /\ a.height # b.height) =>
                   ord.cmp = IF a.height < b.height THEN "Less" ELSE "Greater"
       /\ {"eq", "cmp"} \subseteq ord.ran => (ord.eq <=> ord.cmp = "Equal")
       /\ {"partial_cmp", "cmp"} \subseteq ord.ran => ord.partial_cmp = ord.cmp

C13_Witness ==
    /\ ord.ran = {"eq", "partial_cmp", "cmp"}
    /\ ord.a.width = 1 /\ ord.a.height = 2 /\ ord.b.width = 2 /\ ord.b.height = 1
    /\ ord.a.slice = <<Template, Template>> /\ ord.b.slice = <<DefaultVal, DefaultVal>>
    /\ ord.cmp = "Less" /\ ~ord.eq
\* the offsets of the clipped rectangle of the current view request
Rect ==
    IF ReqValid
    THEN { (it.req[1] + i) + (it.req[2] + j) * arr.width : i \in 0..(EffW - 1), j \in 0..(EffH - 1) }
    ELSE {}

\* every element of the buffer is as before the borrow, except that those
\* at the offsets in S hold new(old value)
OnlyChanged(S, new(_)) ==
    /\ Len(heap.cells) = Len(mut.pre)
    /\ \A k \in 1..Len(heap.cells) :
          heap.cells[k] = IF (k - 1) \in S THEN new(mut.pre[k]) ELSE mut.pre[k]

\* C16: a live array keeps its width, height and number of elements; a
\* write through get_mut(x, y) or array[(x, y)] changes only the element at
\* offset x + y*width; an out-of-bounds get_mut changes nothing; writing
\* every element yielded by view_mut(x, y, w, h) changes exactly the elements
\* of the clipped rectangle, each written once, and no other element.
C16_WriteFrame ==
    LET Assigned(old) == Written
        Incremented(old) == old + 1
        Same(old) == old
    IN /\ arr.live =>
             /\ <<arr.width, arr.height>> = <<mut.born[1], mut.born[2]>>
             /\ Len(heap.cells) = mut.born[3]
       /\ (res.op \in {"get_mut", "index_mut"} /\ mut.writes # <<>>) =>
             /\ Len(mut.writes) = 1
             /\ ~zst => mut.writes[1] = res.x + res.y * arr.width
             /\ OnlyChanged({res.x + res.y * arr.width}, Assigned)
       /\ (res.op = "get_mut" /\ res.out = "None") =>
             mut.writes = <<>> /\ OnlyChanged({}, Same)
       /\ (it.kind = "view_mut" /\ it.done /\ mut.slices = Len(it.out)) =>
             /\ Len(mut.writes) = Cardinality(Rect)
             /\ ~zst => /\ { mut.writes[k] : k \in 1..Len(mut.writes) } = Rect
                        /\ OnlyChanged(Rect, Incremented)

C16_Witness ==
    /\ arr.live /\ ~zst /\ arr.origin = "from_fn" /\ arr.width = 2 /\ arr.height = 2
    /\ it.kind = "view_mut" /\ it.req = <<1, 0, 2, 2>> /\ it.done
    /\ mut.slices = 2 /\ mut.writes = <<1, 3>>
    /\ mut.pre = <<0, 1, 2, 3>> /\ heap.cells = <<0, 2, 2, 4>>
====
